---- MODULE Spec2Model ----
(***************************************************************************)
(* Model of the HTTP HAL of ESP32_IDF_HTTP_ENDPOINT (src/main/http_hal.c): *)
(* one http_hal_t instance, its endpoint backlog (uris, uris_len,          *)
(* uris_cap), its lifecycle (server handle) and the esp_http_server        *)
(* instance it drives.  The esp_http_server calls are modelled by their    *)
(* documented contract: httpd_start and httpd_stop may fail, a failed      *)
(* httpd_stop leaves the server running, httpd_register_uri_handler        *)
(* refuses a URI+method that is already registered and refuses any         *)
(* handler once max_uri_handlers slots are taken.                          *)
(*                                                                         *)
(* Calls of start/stop/register/unregister through a pointer to a freed    *)
(* instance are outside the model; a repeated http_hal_deinit through such *)
(* a pointer is modelled, as undefined behaviour.                          *)
(*                                                                         *)
(* Spec follows the facade with several routes; SpecBuf follows the        *)
(* backlog buffer through its growth with one route; SpecLed follows       *)
(* led_get_handler of src/main/main.c over a sequence of requests; SpecResp*)
(* follows http_hal_send_json and http_hal_send_err.  C strings are        *)
(* sequences of one-character strings, cut where the code's buffers cut.   *)
(***************************************************************************)
EXTENDS Integers, Sequences, FiniteSets, TLC

\* ---------------------------------------------------------------- bounds
\* register_endpoint calls accepted into the backlog in one behaviour
MaxRegs == 3
\* register_endpoint calls accepted into the backlog in one behaviour of the
\* specification that follows the backlog buffer through its growth
MaxAppends == 9
\* longest message passed to http_hal_send_err
MaxMsgLen == 85

\* --------------------------------------------------- program constants
\* HTTPD_DEFAULT_CONFIG().max_uri_handlers
DefaultMaxUriHandlers == 8
\* first capacity of the backlog
InitialCap == 4

\* char query[96] of led_get_handler
QueryBufSize == 96
\* char level_str[8]
LevelBufSize == 8
\* char state_str[16]
StateBufSize == 16
\* char tmp[16] of parse_state
ParseBufSize == 16
\* char resp[80] of led_get_handler
RespBufSize == 80
\* char status[32] of http_hal_send_json
StatusBufSize == 32
\* char buf[96] of http_hal_send_err
ErrBufSize == 96
LED_ACTIVE_LOW == FALSE

\* ------------------------------------------------------------- values
ESP_OK == "ESP_OK"
ESP_FAIL == "ESP_FAIL"
ESP_ERR_INVALID_ARG == "ESP_ERR_INVALID_ARG"
ESP_ERR_NO_MEM == "ESP_ERR_NO_MEM"
ESP_ERR_INVALID_STATE == "ESP_ERR_INVALID_STATE"
ESP_ERR_NOT_FOUND == "ESP_ERR_NOT_FOUND"
ESP_ERR_HTTPD_HANDLERS_FULL == "ESP_ERR_HTTPD_HANDLERS_FULL"
ESP_ERR_HTTPD_HANDLER_EXISTS == "ESP_ERR_HTTPD_HANDLER_EXISTS"
ESP_ERR_HTTPD_TASK == "ESP_ERR_HTTPD_TASK"

NULL == "NULL"
HANDLE == "HANDLE"
\* content of a backlog slot that was allocated and never written
Garbage == [uri |-> "garbage", method |-> "garbage", handler |-> "garbage", user_ctx |-> "garbage"]
\* a free handler slot of the server (hd_calls[i] == NULL)
NoHandler == [uri |-> NULL, method |-> NULL, handler |-> NULL, user_ctx |-> NULL]

Uris == {"/a", "/b"}
Methods == {"HTTP_GET", "HTTP_POST"}

\* http_hal_endpoint_t values a caller passes to register_endpoint
ValidEndpoints ==
    { [uri |-> "/a", method |-> "HTTP_GET",  handler |-> "h1", user_ctx |-> NULL],
      [uri |-> "/a", method |-> "HTTP_GET",  handler |-> "h2", user_ctx |-> NULL],
      [uri |-> "/a", method |-> "HTTP_POST", handler |-> "h1", user_ctx |-> NULL],
      [uri |-> "/b", method |-> "HTTP_GET",  handler |-> "h1", user_ctx |-> NULL] }

InvalidEndpoints ==
    { [uri |-> NULL, method |-> "HTTP_GET", handler |-> "h1", user_ctx |-> NULL],
      [uri |-> "/a", method |-> "HTTP_GET", handler |-> NULL, user_ctx |-> NULL] }

\* http_hal_config_t values a caller passes to init
Configs ==
    { [port |-> 0, lru_purge_enable |-> TRUE, max_uri_handlers |-> 0],
      [port |-> 0, lru_purge_enable |-> TRUE, max_uri_handlers |-> 2] }

NoConfig == [port |-> 0, lru_purge_enable |-> FALSE, max_uri_handlers |-> 0]

VARIABLES
    h,          \* the caller's http_hal_t pointer: "NULL", "valid", "dangling"
    server,     \* h->server: NULL or HANDLE
    cfg,        \* h->cfg
    uris,       \* h->uris: the allocated slots, Len(uris) = uris_cap
    uris_len,   \* h->uris_len
    uris_cap,   \* h->uris_cap
    idf5,       \* build: ESP_IDF_VERSION >= 5.0.0
    hd_live,    \* an esp_http_server started by the instance is running
    hd_calls,   \* the running server's handler slots (NULL = free slot)
    reg_log,    \* descriptors passed to httpd_register_uri_handler since httpd_start
    last,       \* the last facade call: its name, argument, return value, the library
                \* calls it made, for a start whether it follows a completed stop,
                \* and a note on the call made right before that stop
    accepted,   \* history: descriptors of the register calls that passed validation and append
    uaf,        \* history: released storage was read or freed again
    dead_stop,  \* history: httpd_stop was called on a server already stopped
    lvl,        \* main.c: the level last parsed from a level= parameter
    logical,    \* main.c: the state last parsed from a state= parameter
    log_request,\* main.c: a state= parameter was accepted at some time
    gpio,       \* the output level of the LED pin
    written,    \* history: the level the last answered-200 request that wrote the
                \* pin left on it (NoLevel before the first)
    req,        \* history: the last request (did it carry a malformed level or
                \* state value) or responder call (its arguments)
    resp        \* the response of the last request or responder call

inst == <<h, server, cfg, uris, uris_len, uris_cap>>
lib == <<hd_live, hd_calls, reg_log>>
hist == <<accepted, uaf, dead_stop>>
hal == <<h, server, cfg, uris, uris_len, uris_cap, idf5, hd_live, hd_calls,
         reg_log, last, accepted, uaf, dead_stop>>
led == <<lvl, logical, log_request, gpio, written>>
app == <<lvl, logical, log_request, gpio, written, req, resp>>
vars == <<h, server, cfg, uris, uris_len, uris_cap, idf5, hd_live, hd_calls,
          reg_log, last, accepted, uaf, dead_stop,
          lvl, logical, log_request, gpio, written, req, resp>>

\* the sequence of n copies of v
RECURSIVE Fill(_, _)
Fill(n, v) == IF n = 0 THEN <<>> ELSE Append(Fill(n - 1, v), v)

\* C strings are sequences of one-character strings
Min(a, b) == IF a < b THEN a ELSE b

\* no accepted request has written the pin yet
NoLevel == -1

\* a query parameter: absent, or present with a value
Absent == [present |-> FALSE, val |-> <<>>]
Param(v) == [present |-> TRUE, val |-> v]

NoRequest ==
    [op |-> "none", malformed |-> FALSE, status |-> 0, msg |-> <<>>, args |-> "ok"]

NoResponse ==
    [via |-> "none", code |-> "-", status |-> <<>>, type |-> "-", body |-> <<>>,
     sent |-> ESP_OK, ret |-> ESP_OK]

\* argument of a call that passes no endpoint and no route
NoArg == [uri |-> NULL, method |-> NULL, handler |-> NULL, user_ctx |-> NULL]

Ret(op, arg, ret, calls) ==
    [op |-> op, arg |-> arg, ret |-> ret, calls |-> calls, prev |-> "-",
     note |-> "-"]

\* the call recorded in l is a stop that tore the server down
IsCompletedStop(l) == l.op = "stop" /\ l.ret = ESP_OK /\ l.calls # <<>>

\* history kept in last.note across a call, a stop and a start: "removed"
\* when the call right before the stop was an unregister of a registered
\* route, "refused" when it was a register that the live server refused
NoteCarried(l) ==
    IF l.op \in {"unregister", "register"} \/ IsCompletedStop(l) THEN l.note ELSE "-"

\* the route or descriptor of the call that NoteCarried speaks of
RouteCarried(l) == IF NoteCarried(l) # "-" THEN l.arg ELSE NoArg

\* the URI+method key of a descriptor
Key(u) == <<u.uri, u.method>>

\* the backlog: uris[0 .. uris_len)
Backlog == SubSeq(uris, 1, uris_len)

Init ==
    /\ h = NULL
    /\ server = NULL
    /\ cfg = NoConfig
    /\ uris = <<>>
    /\ uris_len = 0
    /\ uris_cap = 0
    /\ idf5 \in BOOLEAN
    /\ hd_live = FALSE
    /\ hd_calls = <<>>
    /\ reg_log = <<>>
    /\ last = Ret("none", NoArg, ESP_OK, <<>>)
    /\ accepted = <<>>
    /\ uaf = FALSE
    /\ dead_stop = FALSE
    /\ lvl = 0
    /\ logical = 0
    /\ log_request = FALSE
    /\ gpio = 0
    /\ written = NoLevel
    /\ req = NoRequest
    /\ resp = NoResponse

\* ------------------------------------------------------ esp_http_server

\* the slot of the handler registered for uri+method, 0 if none
httpd_find_uri_handler(slots, uri, method) ==
    LET hit == { i \in 1..Len(slots) :
                   slots[i] # NoHandler /\ slots[i].uri = uri /\ slots[i].method = method }
    IN IF hit = {} THEN 0 ELSE CHOOSE i \in hit : \A j \in hit : i <= j

\* httpd_register_uri_handler(handle, u): the result and the slots after it
httpd_register_uri_handler(slots, u) ==
    IF httpd_find_uri_handler(slots, u.uri, u.method) # 0
    THEN [err |-> ESP_ERR_HTTPD_HANDLER_EXISTS, slots |-> slots]
    ELSE LET free == { i \in 1..Len(slots) : slots[i] = NoHandler }
         IN IF free = {}
            THEN [err |-> ESP_ERR_HTTPD_HANDLERS_FULL, slots |-> slots]
            ELSE LET i == CHOOSE k \in free : \A j \in free : k <= j
                 IN [err |-> ESP_OK, slots |-> [slots EXCEPT ![i] = u]]

\* httpd_unregister_uri_handler(handle, uri, method)
httpd_unregister_uri_handler(slots, uri, method) ==
    LET i == httpd_find_uri_handler(slots, uri, method)
    IN IF i = 0
       THEN [err |-> ESP_ERR_NOT_FOUND, slots |-> slots]
       ELSE [err |-> ESP_OK, slots |-> [slots EXCEPT ![i] = NoHandler]]

\* httpd_unregister_uri(handle, uri): every method of the URI
httpd_unregister_uri(slots, uri) ==
    [i \in 1..Len(slots) |->
        IF slots[i] # NoHandler /\ slots[i].uri = uri THEN NoHandler ELSE slots[i]]

\* the handler a request for uri+method is dispatched to, NULL for "not found"
EffectiveHandler(uri, method) ==
    LET i == httpd_find_uri_handler(hd_calls, uri, method)
    IN IF hd_live /\ i # 0 THEN hd_calls[i].handler ELSE NULL

\* uri+method is registered on the live server
Registered(uri, method) == EffectiveHandler(uri, method) # NULL

\* ------------------------------------------------------------- http_hal

\* new capacity ensure_capacity asks realloc for
RECURSIVE new_cap_loop(_, _)
new_cap_loop(c, need) ==
    IF c < need THEN new_cap_loop(c * 2, need) ELSE c

\* mutant: the capacity grows by a fixed step
GrowCap_linear(cap, need) == IF cap = 0 THEN InitialCap ELSE cap + InitialCap

GrowCap(cap, need) ==
    new_cap_loop(IF cap = 0 THEN InitialCap ELSE cap * 2, need)

\* mutant: h->uris_cap is set before realloc's result is checked
ensure_capacity_early(slots, cap, need, ok) ==
    IF cap >= need
    THEN [err |-> ESP_OK, uris |-> slots, cap |-> cap]
    ELSE LET nc == GrowCap(cap, need)
         IN IF ~ok
            THEN [err |-> ESP_ERR_NO_MEM, uris |-> slots, cap |-> nc]
            ELSE [err |-> ESP_OK,
                  uris |-> slots \o Fill(nc - Len(slots), Garbage),
                  cap |-> nc]

\* ensure_capacity(h, need) with realloc succeeding (ok) or not
ensure_capacity(slots, cap, need, ok) ==
    IF cap >= need
    THEN [err |-> ESP_OK, uris |-> slots, cap |-> cap]
    ELSE IF ~ok
         THEN [err |-> ESP_ERR_NO_MEM, uris |-> slots, cap |-> cap]
         ELSE LET nc == GrowCap(cap, need)
              IN [err |-> ESP_OK,
                  uris |-> slots \o Fill(nc - Len(slots), Garbage),
                  cap |-> nc]

\* fill_httpd_config(in): the httpd_config_t fields the HAL sets
fill_httpd_config(in) ==
    [server_port |-> IF in.port > 0 THEN in.port ELSE 80,
     lru_purge_enable |-> in.lru_purge_enable,
     max_uri_handlers |-> IF in.max_uri_handlers > 0 THEN in.max_uri_handlers
                          ELSE DefaultMaxUriHandlers]

http_hal_init ==
    /\ UNCHANGED app
    /\ h = NULL
    /\ \E args_ok \in BOOLEAN, c \in Configs, calloc_ok \in BOOLEAN :
         IF ~args_ok
         THEN /\ last' = Ret("init", NoArg, ESP_ERR_INVALID_ARG, <<>>)
              /\ UNCHANGED <<inst, idf5, lib, hist>>
         ELSE IF ~calloc_ok
         THEN /\ last' = Ret("init", NoArg, ESP_ERR_NO_MEM, <<>>)
              /\ UNCHANGED <<inst, idf5, lib, hist>>
         ELSE /\ h' = "valid"
              /\ server' = NULL
              /\ cfg' = c
              /\ uris' = <<>>
              /\ uris_len' = 0
              /\ uris_cap' = 0
              /\ last' = Ret("init", NoArg, ESP_OK, <<>>)
              /\ UNCHANGED <<idf5, lib, hist>>

\* mutant: start does not look at h->server
StartIsNoop_never(srv) == FALSE

\* http_hal_start returns at once, without touching the library
StartIsNoop(srv) == srv # NULL

\* mutant: the replay loop leaves at the first registration that fails
RECURSIVE Replay_break(_, _, _)
Replay_break(st, backlog, i) ==
    IF i > Len(backlog)
    THEN st
    ELSE LET r == httpd_register_uri_handler(st.slots, backlog[i])
             nx == [slots |-> r.slots, log |-> Append(st.log, backlog[i])]
         IN IF r.err # ESP_OK THEN nx ELSE Replay_break(nx, backlog, i + 1)

\* mutant: the replay loop runs from the last descriptor to the first
RECURSIVE Replay_reversed(_, _, _)
Replay_reversed(st, backlog, i) ==
    IF i > Len(backlog)
    THEN st
    ELSE LET u == backlog[Len(backlog) + 1 - i]
         IN Replay_reversed([slots |-> httpd_register_uri_handler(st.slots, u).slots,
                             log |-> Append(st.log, u)],
                            backlog, i + 1)

\* the replay loop of http_hal_start: registers uris[i .. uris_len) in turn;
\* st is the server's slots and the log of descriptors offered to it
RECURSIVE Replay(_, _, _)
Replay(st, backlog, i) ==
    IF i > Len(backlog)
    THEN st
    ELSE Replay([slots |-> httpd_register_uri_handler(st.slots, backlog[i]).slots,
                 log |-> Append(st.log, backlog[i])],
                backlog, i + 1)

\* mutant: h->server is set although httpd_start failed
ServerAfterStart_always(err) == HANDLE

\* h->server after httpd_start(&h->server, &cfg) returned err: the library
\* writes the handle only when it succeeds
ServerAfterStart(err) == IF err = ESP_OK THEN HANDLE ELSE NULL

\* httpd_start(&h->server, &cfg) either fails, leaving h->server NULL, or
\* brings up a server with max_uri_handlers free slots
http_hal_start ==
    /\ UNCHANGED app
    /\ \/ /\ h = NULL
          /\ last' = Ret("start", NoArg, ESP_ERR_INVALID_ARG, <<>>)
          /\ UNCHANGED <<inst, idf5, lib, hist>>
       \/ /\ h = "valid"
          /\ StartIsNoop(server)
          /\ last' = Ret("start", NoArg, ESP_OK, <<>>)
          /\ UNCHANGED <<inst, idf5, lib, hist>>
       \/ /\ h = "valid"
          /\ ~StartIsNoop(server)
          /\ \E err \in {ESP_OK, ESP_ERR_HTTPD_TASK} :
               IF err # ESP_OK
               THEN /\ last' = Ret("start", NoArg, err, <<"httpd_start">>)
                    /\ server' = ServerAfterStart(err)
                    /\ UNCHANGED <<h, cfg, uris, uris_len, uris_cap, idf5, lib, hist>>
               ELSE LET c == fill_httpd_config(cfg)
                        empty == Fill(c.max_uri_handlers, NoHandler)
                        st == Replay([slots |-> empty, log |-> <<>>], Backlog, 1)
                    IN /\ server' = ServerAfterStart(err)
                       /\ hd_live' = TRUE
                       /\ hd_calls' = st.slots
                       /\ reg_log' = st.log
                       /\ last' = [Ret("start", RouteCarried(last), ESP_OK,
                                       <<"httpd_start">> \o
                                       Fill(Len(st.log), "httpd_register_uri_handler"))
                                   EXCEPT !.prev = IF IsCompletedStop(last) THEN "stop" ELSE "-",
                                          !.note = NoteCarried(last)]
                       /\ UNCHANGED <<h, cfg, uris, uris_len, uris_cap, idf5, hist>>

\* http_hal_native_handle(h)
http_hal_native_handle == IF h = NULL THEN NULL ELSE server

\* mutant: stop clears h->server whatever httpd_stop returned
ServerAfterStop_always(srv, err) == NULL

\* h->server after httpd_stop(h->server) returned err
ServerAfterStop(srv, err) == IF err = ESP_OK THEN NULL ELSE srv

\* http_hal_stop returns at once, without touching the library
StopIsNoop(srv) == srv = NULL

\* httpd_stop(handle) returning err: a failed stop leaves the server running
httpd_stop(err) ==
    IF err = ESP_OK
    THEN /\ hd_live' = FALSE
         /\ hd_calls' = <<>>
         /\ reg_log' = <<>>
    ELSE UNCHANGED lib

http_hal_stop ==
    /\ UNCHANGED app
    /\ \/ /\ h = NULL
          /\ last' = Ret("stop", NoArg, ESP_ERR_INVALID_ARG, <<>>)
          /\ UNCHANGED <<inst, idf5, lib, hist>>
       \/ /\ h = "valid"
          /\ StopIsNoop(server)
          /\ last' = Ret("stop", NoArg, ESP_OK, <<>>)
          /\ UNCHANGED <<inst, idf5, lib, hist>>
       \/ /\ h = "valid"
          /\ ~StopIsNoop(server)
          /\ \E err \in {ESP_OK, ESP_FAIL} :
               /\ httpd_stop(err)
               /\ server' = ServerAfterStop(server, err)
               /\ last' = [Ret("stop", IF err = ESP_OK THEN RouteCarried(last) ELSE NoArg,
                               err, <<"httpd_stop">>)
                           EXCEPT !.note = IF err = ESP_OK THEN NoteCarried(last) ELSE "-"]
               /\ UNCHANGED <<h, cfg, uris, uris_len, uris_cap, idf5, hist>>

\* http_hal_deinit returns at once
DeinitIsNoop(ptr) == ptr = NULL

\* free(h->uris); free(h): the instance's storage is released
Release ==
    /\ h' = "dangling"
    /\ server' = NULL
    /\ cfg' = NoConfig
    /\ uris' = <<>>
    /\ uris_len' = 0
    /\ uris_cap' = 0
    /\ accepted' = <<>>

http_hal_deinit ==
    /\ UNCHANGED app
    /\ \/ /\ DeinitIsNoop(h)
          /\ last' = Ret("deinit", NoArg, "void", <<>>)
          /\ UNCHANGED <<inst, idf5, lib, hist>>
       \/ /\ h = "valid"
          /\ ~DeinitIsNoop(h)
          /\ IF StopIsNoop(server)
             THEN /\ last' = Ret("deinit", NoArg, "void", <<>>)
                  /\ UNCHANGED lib
             ELSE \E err \in {ESP_OK, ESP_FAIL} :
                    /\ httpd_stop(err)
                    /\ last' = Ret("deinit", NoArg, "void", <<"httpd_stop">>)
          /\ Release
          /\ UNCHANGED <<idf5, uaf, dead_stop>>
       \/ \* h points to the freed instance: h->server is read from released
          \* storage (any value), then h->uris and h are freed a second time
          /\ h = "dangling"
          /\ ~DeinitIsNoop(h)
          /\ \E srv \in {NULL, HANDLE} :
               IF StopIsNoop(srv)
               THEN /\ last' = Ret("deinit", NoArg, "void", <<>>)
                    /\ UNCHANGED <<lib, dead_stop>>
               ELSE IF hd_live
                    THEN \E err \in {ESP_OK, ESP_FAIL} :
                           /\ httpd_stop(err)
                           /\ last' = Ret("deinit", NoArg, "void", <<"httpd_stop">>)
                           /\ UNCHANGED dead_stop
                    ELSE /\ dead_stop' = TRUE
                         /\ last' = Ret("deinit", NoArg, "void", <<"httpd_stop">>)
                         /\ UNCHANGED lib
          /\ uaf' = TRUE
          /\ UNCHANGED <<inst, idf5, accepted>>

\* mutant: h->uris[++h->uris_len] = u
StoreDescriptor_preinc(slots, len, u) == [slots EXCEPT ![len + 2] = u]

\* h->uris[h->uris_len++] = u
StoreDescriptor(slots, len, u) == [slots EXCEPT ![len + 1] = u]

\* the argument check of http_hal_register_endpoint (ep = NoArg: ep is NULL)
RegisterArgsOk(ptr, ep) ==
    ptr # NULL /\ ep # NoArg /\ ep.uri # NULL /\ ep.handler # NULL

\* mutant: register_endpoint only buffers
RegistersNow_never(srv) == FALSE

\* register_endpoint also registers on the live server
RegistersNow(srv) == srv # NULL

\* mutant: an immediate registration failure is only logged, as in start
ImmediateResult_logged(err) == ESP_OK

\* return httpd_register_uri_handler(h->server, &u)
ImmediateResult(err) == err

\* http_hal_register_endpoint(h, ep) for ep among eps (NoArg: ep is NULL),
\* while fewer than bound descriptors are in the backlog
RegisterEndpoint(eps, bound) ==
    /\ UNCHANGED app
    /\ h \in {NULL, "valid"}
    /\ \E ep \in eps,
          realloc_ok \in (IF uris_cap >= uris_len + 1 THEN {TRUE} ELSE BOOLEAN) :
         IF ~RegisterArgsOk(h, ep)
         THEN /\ last' = Ret("register", ep, ESP_ERR_INVALID_ARG, <<>>)
              /\ UNCHANGED <<inst, idf5, lib, hist>>
         ELSE LET ec == ensure_capacity(uris, uris_cap, uris_len + 1, realloc_ok)
              IN IF ec.err # ESP_OK
                 THEN /\ last' = Ret("register", ep, ec.err, <<>>)
                      /\ uris' = ec.uris
                      /\ uris_cap' = ec.cap
                      /\ UNCHANGED <<h, server, cfg, uris_len, idf5, lib, hist>>
                 ELSE /\ uris_len < bound
                      /\ uris' = StoreDescriptor(ec.uris, uris_len, ep)
                      /\ uris_cap' = ec.cap
                      /\ uris_len' = uris_len + 1
                      /\ accepted' = Append(accepted, ep)
                      /\ IF RegistersNow(server)
                         THEN LET r == httpd_register_uri_handler(hd_calls, ep)
                              IN /\ hd_calls' = r.slots
                                 /\ reg_log' = Append(reg_log, ep)
                                 /\ last' = [Ret("register", ep, ImmediateResult(r.err),
                                                 <<"httpd_register_uri_handler">>)
                                             EXCEPT !.note = IF r.err # ESP_OK
                                                             THEN "refused" ELSE "-"]
                                 /\ UNCHANGED hd_live
                         ELSE /\ last' = Ret("register", ep, ESP_OK, <<>>)
                              /\ UNCHANGED lib
                      /\ UNCHANGED <<h, server, cfg, idf5, uaf, dead_stop>>

\* the ep arguments callers pass (NoArg: ep is NULL)
RegisterArgs == ValidEndpoints \cup InvalidEndpoints \cup {NoArg}

http_hal_register_endpoint == RegisterEndpoint(RegisterArgs, MaxRegs)

\* mutant: unregister does not check that the server is started
UnregisterStateOk_always(srv) == TRUE

\* the state check of http_hal_unregister_endpoint
UnregisterStateOk(srv) == srv # NULL

\* mutant: unregister reports success and leaves the route on the server
UnregisterOnServer_noop(slots, uri, method, v5) ==
    [err |-> ESP_OK, slots |-> slots, call |-> "httpd_unregister_uri_handler"]

\* the removal from the live server, by the build: with ESP-IDF >= 5.0.0 the
\* handler of uri+method is removed and the library's result returned, with an
\* older ESP-IDF every handler of the URI is removed and ESP_OK returned
UnregisterOnServer(slots, uri, method, v5) ==
    IF v5
    THEN LET r == httpd_unregister_uri_handler(slots, uri, method)
         IN [err |-> r.err, slots |-> r.slots, call |-> "httpd_unregister_uri_handler"]
    ELSE [err |-> ESP_OK, slots |-> httpd_unregister_uri(slots, uri),
          call |-> "httpd_unregister_uri"]

\* the uri arguments callers pass to unregister
UnregisterUris == Uris \cup {NULL}

\* mutant: unregister also drops the first matching descriptor of the backlog
BacklogAfterUnregister_forget(slots, len, uri, method) ==
    LET idx == { i \in 1..len : Key(slots[i]) = <<uri, method>> }
    IN IF idx = {}
       THEN [uris |-> slots, len |-> len]
       ELSE LET k == CHOOSE i \in idx : \A j \in idx : i <= j
            IN [uris |-> [i \in 1..Len(slots) |->
                            IF i < k THEN slots[i]
                            ELSE IF i < len THEN slots[i + 1]
                            ELSE Garbage],
                len |-> len - 1]

\* h->uris and h->uris_len after an unregister that reached the server: the
\* function never writes them
BacklogAfterUnregister(slots, len, uri, method) == [uris |-> slots, len |-> len]

http_hal_unregister_endpoint ==
    /\ UNCHANGED app
    /\ h \in {NULL, "valid"}
    /\ \E uri \in UnregisterUris, method \in Methods :
         LET arg == [uri |-> uri, method |-> method, handler |-> NULL, user_ctx |-> NULL]
         IN IF h = NULL \/ uri = NULL
            THEN /\ last' = Ret("unregister", arg, ESP_ERR_INVALID_ARG, <<>>)
                 /\ UNCHANGED <<inst, idf5, lib, hist>>
            ELSE IF ~UnregisterStateOk(server)
            THEN /\ last' = Ret("unregister", arg, ESP_ERR_INVALID_STATE, <<>>)
                 /\ UNCHANGED <<inst, idf5, lib, hist>>
            ELSE LET r == UnregisterOnServer(hd_calls, uri, method, idf5)
                     b == BacklogAfterUnregister(uris, uris_len, uri, method)
                 IN /\ hd_calls' = r.slots
                    /\ uris' = b.uris
                    /\ uris_len' = b.len
                    /\ last' = [Ret("unregister", arg, r.err, <<r.call>>)
                                EXCEPT !.note = IF Registered(uri, method)
                                                THEN "removed" ELSE "-"]
                    /\ UNCHANGED <<h, server, cfg, uris_cap, idf5, hd_live, reg_log, hist>>

Next ==
    \/ http_hal_init
    \/ http_hal_start
    \/ http_hal_stop
    \/ http_hal_deinit
    \/ http_hal_register_endpoint
    \/ http_hal_unregister_endpoint

Spec == Init /\ [][Next]_vars

\* descriptors registered in the specification that follows the buffer
BufEndpoints ==
    { [uri |-> "/a", method |-> "HTTP_GET", handler |-> "h1", user_ctx |-> NULL] }

BufRegisterArgs == BufEndpoints \cup InvalidEndpoints \cup {NoArg}

\* the same program with one route registered up to MaxAppends times, so that
\* the backlog buffer grows several times
NextBuf ==
    \/ http_hal_init
    \/ http_hal_start
    \/ http_hal_stop
    \/ http_hal_deinit
    \/ RegisterEndpoint(BufRegisterArgs, MaxAppends)
    \/ http_hal_unregister_endpoint

SpecBuf == Init /\ [][NextBuf]_vars

\* ------------------------------------------------------ response helpers

ESP_ERR_HTTPD_RESULT_TRUNC == "ESP_ERR_HTTPD_RESULT_TRUNC"
ESP_ERR_HTTPD_RESP_SEND == "ESP_ERR_HTTPD_RESP_SEND"

DecDigits == <<"0", "1", "2", "3", "4", "5", "6", "7", "8", "9">>

\* the "%d" conversion of a non-negative int
RECURSIVE Decimal(_)
Decimal(n) ==
    IF n < 10 THEN <<DecDigits[n + 1]>>
    ELSE Decimal(n \div 10) \o <<DecDigits[(n % 10) + 1]>>

\* mutant: snprintf fills the whole buffer and writes no terminator
Snprintf_noterm(text, size) == SubSeq(text, 1, Min(Len(text), size))

\* snprintf(buf, size, ...): the formatted text cut to size - 1 characters
Snprintf(text, size) == SubSeq(text, 1, Min(Len(text), size - 1))

\* status codes that http_hal_send_err hands to httpd_resp_send_err, with the
\* library's error code for each
ReservedCodes == {400, 401, 404, 413, 500}
HttpdErrCode(status) ==
    CASE status = 400 -> "HTTPD_400_BAD_REQUEST"
      [] status = 401 -> "HTTPD_401_UNAUTHORIZED"
      [] status = 404 -> "HTTPD_404_NOT_FOUND"
      [] status = 413 -> "HTTPD_413_CONTENT_TOO_LARGE"
      [] status = 500 -> "HTTPD_500_INTERNAL_SERVER_ERROR"

\* the status codes http_hal_send_err maps to httpd_resp_send_err
IsReserved(status) == status \in ReservedCodes

\* http_hal_send_json(req, status_code, json); args tells which pointer is
\* NULL, sent is what httpd_resp_send returns
http_hal_send_json(args, status, json, sent) ==
    IF args # "ok"
    THEN [NoResponse EXCEPT !.ret = ESP_ERR_INVALID_ARG]
    ELSE [via |-> "httpd_resp_send", code |-> "-",
          status |-> Snprintf(Decimal(status), StatusBufSize),
          type |-> "application/json", body |-> json,
          sent |-> sent, ret |-> ESP_OK]

ErrPrefix == <<"{", "\"", "e", "r", "r", "o", "r", "\"", ":", "\"">>
ErrSuffix == <<"\"", "}">>

\* http_hal_send_err(req, status_code, msg); sent is what the library's send
\* returns
http_hal_send_err(args, status, msg, sent) ==
    IF args # "ok"
    THEN [NoResponse EXCEPT !.ret = ESP_ERR_INVALID_ARG]
    ELSE IF IsReserved(status)
    THEN [via |-> "httpd_resp_send_err", code |-> HttpdErrCode(status),
          status |-> Decimal(status), type |-> "text/html", body |-> msg,
          sent |-> sent, ret |-> sent]
    ELSE http_hal_send_json(args, status,
                            Snprintf(ErrPrefix \o msg \o ErrSuffix, ErrBufSize), sent)

\* ---------------------------------------------------------- main.c

UpperCase == <<"A", "B", "C", "D", "E", "F", "G", "H", "I", "J", "K", "L", "M", "N", "O", "P", "Q", "R", "S", "T", "U", "V", "W", "X", "Y", "Z">>
LowerCase == <<"a", "b", "c", "d", "e", "f", "g", "h", "i", "j", "k", "l", "m", "n", "o", "p", "q", "r", "s", "t", "u", "v", "w", "x", "y", "z">>

\* the lower-case letter of each upper-case letter
LowerOf ==
    [c \in { UpperCase[i] : i \in 1..Len(UpperCase) } |->
        LowerCase[CHOOSE i \in 1..Len(UpperCase) : UpperCase[i] = c]]

tolower(c) == IF c \in DOMAIN LowerOf THEN LowerOf[c] ELSE c

\* tolower applied to every character of a string
RECURSIVE Lowered(_)
Lowered(str) ==
    IF str = <<>> THEN <<>> ELSE <<tolower(Head(str))>> \o Lowered(Tail(str))

\* the texts parse_state reads as 1 and as 0
OnTexts == { <<"1">>, <<"o", "n">>, <<"t", "r", "u", "e">> }
OffTexts == { <<"0">>, <<"o", "f", "f">>, <<"f", "a", "l", "s", "e">> }

\* parse_state(s, &out): out holds cur before the call
parse_state(str, cur) ==
    LET n == Min(Len(str), ParseBufSize - 1)
        tmp == Lowered(SubSeq(str, 1, n))
    IN IF tmp \in OnTexts THEN [ok |-> TRUE, out |-> 1]
       ELSE IF tmp \in OffTexts THEN [ok |-> TRUE, out |-> 0]
       ELSE [ok |-> FALSE, out |-> cur]

logical_from_gpio_level(gpio_level) ==
    IF LED_ACTIVE_LOW
    THEN (IF gpio_level # 0 THEN 0 ELSE 1)
    ELSE (IF gpio_level # 0 THEN 1 ELSE 0)

gpio_level_from_logical(logical_level) ==
    LET l == IF logical_level # 0 THEN 1 ELSE 0
    IN IF LED_ACTIVE_LOW THEN 1 - l ELSE l

\* the length of the request's query string: level=<v>, state=<v> and pad
\* characters of other parameters, joined by '&'
QueryLen(level, state, pad) ==
    LET parts == (IF level.present THEN <<6 + Len(level.val)>> ELSE <<>>)
                 \o (IF state.present THEN <<6 + Len(state.val)>> ELSE <<>>)
                 \o (IF pad > 0 THEN <<pad>> ELSE <<>>)
        sum == IF Len(parts) = 0 THEN 0
               ELSE IF Len(parts) = 1 THEN parts[1]
               ELSE IF Len(parts) = 2 THEN parts[1] + parts[2]
               ELSE parts[1] + parts[2] + parts[3]
    IN IF Len(parts) = 0 THEN 0 ELSE sum + Len(parts) - 1

\* httpd_req_get_url_query_str(req, query, size) for a query of len characters
httpd_req_get_url_query_str(len, size) ==
    IF len = 0 THEN ESP_ERR_NOT_FOUND
    ELSE IF len + 1 > size THEN ESP_ERR_HTTPD_RESULT_TRUNC
    ELSE ESP_OK

\* httpd_query_key_value(query, key, val, size) for the parameter of that key
httpd_query_key_value(param, size) ==
    IF ~param.present THEN [err |-> ESP_ERR_NOT_FOUND, val |-> <<>>]
    ELSE IF Len(param.val) + 1 > size
    THEN [err |-> ESP_ERR_HTTPD_RESULT_TRUNC, val |-> SubSeq(param.val, 1, size - 1)]
    ELSE [err |-> ESP_OK, val |-> param.val]

\* the body led_get_handler formats into resp[80]
LedJson(led_on, gpio_lvl) ==
    Snprintf(<<"{", "\"", "o", "k", "\"", ":", "t", "r", "u", "e", ",", "\"", "l", "e", "d", "\"", ":">>
             \o (IF led_on # 0 THEN <<"t", "r", "u", "e">> ELSE <<"f", "a", "l", "s", "e">>)
             \o <<",", "\"", "g", "p", "i", "o", "_", "l", "e", "v", "e", "l", "\"", ":">>
             \o Decimal(gpio_lvl) \o <<"}">>,
             RespBufSize)

InvalidLevelMsg == <<"I", "n", "v", "a", "l", "i", "d", " ", "l", "e", "v", "e", "l", " ", "(", "u", "s", "e", " ", "0", " ", "o", "r", " ", "1", ")">>
InvalidStateMsg == <<"I", "n", "v", "a", "l", "i", "d", " ", "s", "t", "a", "t", "e", " ", "(", "u", "s", "e", " ", "o", "n", "/", "o", "f", "f", "/", "t", "r", "u", "e", "/", "f", "a", "l", "s", "e", ")">>

\* the level= part of led_get_handler: what it leaves in lvl and on the pin
LevelPart(level, query_ok) ==
    LET kv == httpd_query_key_value(level, LevelBufSize)
    IN IF query_ok /\ kv.err = ESP_OK
       THEN LET p == parse_state(kv.val, lvl)
            IN IF p.ok
               THEN [lvl |-> p.out, gpio |-> gpio_level_from_logical(p.out),
                     wrote |-> TRUE, bad |-> FALSE]
               ELSE [lvl |-> p.out, gpio |-> gpio, wrote |-> FALSE, bad |-> TRUE]
       ELSE [lvl |-> lvl, gpio |-> gpio, wrote |-> FALSE, bad |-> FALSE]

\* the state= part of led_get_handler; a is what the level= part left
StatePart(a, state, query_ok) ==
    LET kv == httpd_query_key_value(state, StateBufSize)
    IN IF query_ok /\ kv.err = ESP_OK
       THEN LET p == parse_state(kv.val, logical)
            IN IF p.ok
               THEN [logical |-> p.out, log_request |-> TRUE,
                     gpio |-> gpio_level_from_logical(p.out),
                     wrote |-> TRUE, bad |-> FALSE]
               ELSE [logical |-> p.out, log_request |-> log_request,
                     gpio |-> a.gpio, wrote |-> a.wrote, bad |-> TRUE]
       ELSE [logical |-> logical, log_request |-> log_request,
             gpio |-> a.gpio, wrote |-> a.wrote, bad |-> FALSE]

\* the parameter carries a value that is none of 0, 1, on, off, true, false
\* (in any case of letters)
Malformed(param) ==
    /\ param.present
    /\ Lowered(param.val) \notin OnTexts
    /\ Lowered(param.val) \notin OffTexts

\* values a client sends in level= and state=
ParamValues ==
    { <<"1">>, <<"0">>, <<"O", "N">>, <<"2">>,
      <<"0", "0", "0", "0", "0", "0", "0", "1">>,
      <<"o", "n", "o", "n", "o", "n", "o", "n", "o", "n", "o", "n", "o", "n", "o", "n">> }
Params == {Absent} \cup { Param(v) : v \in ParamValues }

\* lengths of the other parameters of a query: none, or enough to overflow
\* query[96]
Pads == {0, 90}

\* led_get_handler(req)
led_get_handler ==
    /\ \E level \in Params, state \in Params, pad \in Pads,
          sent \in {ESP_OK, ESP_ERR_HTTPD_RESP_SEND} :
         LET q == httpd_req_get_url_query_str(QueryLen(level, state, pad), QueryBufSize)
             a == LevelPart(level, q = ESP_OK)
             b == StatePart(a, state, q = ESP_OK)
             r == [NoRequest EXCEPT !.op = "led",
                                    !.malformed = Malformed(level) \/ Malformed(state)]
         IN IF a.bad
            THEN /\ lvl' = a.lvl
                 /\ gpio' = a.gpio
                 /\ resp' = http_hal_send_err("ok", 400, InvalidLevelMsg, sent)
                 /\ req' = [r EXCEPT !.status = 400, !.msg = InvalidLevelMsg]
                 /\ UNCHANGED <<logical, log_request, written>>
            ELSE IF b.bad
            THEN /\ lvl' = a.lvl
                 /\ gpio' = a.gpio
                 /\ logical' = b.logical
                 /\ resp' = http_hal_send_err("ok", 400, InvalidStateMsg, sent)
                 /\ req' = [r EXCEPT !.status = 400, !.msg = InvalidStateMsg]
                 /\ UNCHANGED <<log_request, written>>
            ELSE LET gpio_lvl == IF b.log_request THEN b.logical ELSE a.lvl
                     led_on == logical_from_gpio_level(gpio_lvl)
                 IN /\ lvl' = a.lvl
                    /\ logical' = b.logical
                    /\ log_request' = b.log_request
                    /\ gpio' = b.gpio
                    /\ written' = IF b.wrote THEN b.gpio ELSE written
                    /\ resp' = http_hal_send_json("ok", 200, LedJson(led_on, gpio_lvl), sent)
                    /\ req' = [r EXCEPT !.status = 200]
    /\ UNCHANGED hal

NextLed == led_get_handler

\* the server running with led_get_handler registered for GET /api/led:
\* requests arrive one after another
SpecLed == Init /\ [][NextLed]_vars

\* status codes and messages passed to the responders
StatusCodes == {200, 400, 401, 404, 413, 422, 500, 503}
MsgLens == {0, 3} \cup { n \in 0..MaxMsgLen : n + 5 >= MaxMsgLen }
Messages == { Fill(n, "m") : n \in MsgLens } \cup { InvalidLevelMsg }
PointerArgs == {"ok", "no req", "no text"}
JsonBodies == { LedJson(0, 0), LedJson(1, 1), <<"{", "}">> }

\* a handler calls http_hal_send_err
send_err_call ==
    /\ \E args \in PointerArgs, status \in StatusCodes, msg \in Messages,
          sent \in {ESP_OK, ESP_ERR_HTTPD_RESP_SEND} :
         /\ resp' = http_hal_send_err(args, status, msg, sent)
         /\ req' = [NoRequest EXCEPT !.op = "send_err", !.status = status,
                                     !.msg = msg, !.args = args]
    /\ UNCHANGED <<hal, led>>

\* a handler calls http_hal_send_json
send_json_call ==
    /\ \E args \in PointerArgs, status \in StatusCodes,
          json \in JsonBodies,
          sent \in {ESP_OK, ESP_ERR_HTTPD_RESP_SEND} :
         /\ resp' = http_hal_send_json(args, status, json, sent)
         /\ req' = [NoRequest EXCEPT !.op = "send_json", !.status = status,
                                     !.msg = json, !.args = args]
    /\ UNCHANGED <<hal, led>>

NextResp ==
    \/ send_err_call
    \/ send_json_call

\* handlers answering through the two responders of http_hal.c
SpecResp == Init /\ [][NextResp]_vars

\* ---------------------------------------------------------------- claims

Running == h = "valid" /\ server # NULL
Stopped == h = "valid" /\ server = NULL

\* the last call was a start that brought a server up (and replayed the backlog)
FreshStart == h = "valid" /\ last.op = "start" /\ last.ret = ESP_OK /\ last.calls # <<>>

\* the number of handler slots of the server the instance starts
MaxUriHandlers == fill_httpd_config(cfg).max_uri_handlers

\* the distinct URI+method keys among the first i backlog descriptors
KeysUpTo(i) == { Key(uris[j]) : j \in 1..i }

\* the index of the first backlog descriptor with the key of descriptor i
FirstWithKey(i) ==
    CHOOSE j \in 1..i : Key(uris[j]) = Key(uris[i]) /\
                        \A k \in 1..i : Key(uris[k]) = Key(uris[i]) => j <= k

\* C1 as stated: after any register calls, a stop and then a start (both
\* succeeding), every backlog endpoint is registered on the live server.
C1_AllRegisteredAfterRestart ==
    (FreshStart /\ last.prev = "stop") =>
        \A i \in 1..uris_len : Registered(uris[i].uri, uris[i].method)

\* C1 amended: after a start that brought the server up, a backlog endpoint
\* is registered on the live server exactly when its URI+method is among the
\* first max_uri_handlers distinct URI+method routes of the backlog (the replay
\* of any later route is refused by the server and skipped); none is lost by
\* the stop.
C1_RegisteredWithinCapacity ==
    FreshStart =>
        \A i \in 1..uris_len :
            Registered(uris[i].uri, uris[i].method)
                <=> (Cardinality(KeysUpTo(FirstWithKey(i))) <= MaxUriHandlers)

C1_Witness ==
    /\ FreshStart
    /\ last.prev = "stop"
    /\ uris_len >= 2
    /\ Cardinality(KeysUpTo(uris_len)) >= 2
    /\ \A i \in 1..uris_len : Registered(uris[i].uri, uris[i].method)

\* C2: while the instance exists, the backlog uris[0..uris_len) is exactly the
\* sequence of descriptors of the register calls that passed validation and
\* append, in call order, whether the server is running or stopped.
C2_BacklogIsRegistry ==
    h = "valid" => /\ uris_len = Len(accepted)
                   /\ uris_len <= Len(uris)
                   /\ Backlog = accepted

C2_Witness ==
    /\ Running
    /\ uris_len >= 3
    /\ last.op = "unregister"
    /\ last.ret = ESP_OK
    /\ Backlog = accepted

\* C3 as stated: a register call made while Running leaves the endpoint
\* registered on the live server when it returns; while Stopped no endpoint is
\* registered on any server.
C3_ImmediateOrBuffered ==
    /\ (Running /\ last.op = "register" /\ last.ret # ESP_ERR_INVALID_ARG
            /\ last.ret # ESP_ERR_NO_MEM)
          => Registered(last.arg.uri, last.arg.method)
    /\ Stopped => \A u \in Uris, m \in Methods : ~Registered(u, m)

\* C3 amended: a register call made while Running that returns success leaves
\* the endpoint registered on the live server, with its own handler, when it
\* returns; while Stopped no endpoint is registered on any server.
C3_ImmediateOnSuccess ==
    /\ (Running /\ last.op = "register" /\ last.ret = ESP_OK)
          => EffectiveHandler(last.arg.uri, last.arg.method) = last.arg.handler
    /\ Stopped => \A u \in Uris, m \in Methods : ~Registered(u, m)

C3_Witness ==
    /\ Running
    /\ last.op = "register"
    /\ last.ret = ESP_OK
    /\ uris_len >= 2
    /\ EffectiveHandler(last.arg.uri, last.arg.method) = last.arg.handler

\* C4: a start that brings the server up offers the backlog descriptors to it
\* in registration order, and for every URI+method registered by it the
\* effective handler is that of the first backlog descriptor with that key.
C4_ReplayOrder ==
    FreshStart =>
        /\ reg_log = Backlog
        /\ \A i \in 1..uris_len :
              Registered(uris[i].uri, uris[i].method) =>
                  EffectiveHandler(uris[i].uri, uris[i].method)
                      = uris[FirstWithKey(i)].handler

C4_Witness ==
    /\ FreshStart
    /\ \E i, j \in 1..uris_len :
          /\ i < j
          /\ Key(uris[i]) = Key(uris[j])
          /\ uris[i].handler # uris[j].handler
          /\ FirstWithKey(j) = i
          /\ EffectiveHandler(uris[j].uri, uris[j].method) = uris[i].handler

\* C5: a start issued while Running and a stop issued while Stopped return
\* ESP_OK, make no call on the underlying server and change neither the
\* instance nor the server.
C5_IdempotentLifecycle ==
    [][ ((Running /\ last'.op = "start") \/ (Stopped /\ last'.op = "stop"))
          => /\ last'.ret = ESP_OK
             /\ last'.calls = <<>>
             /\ UNCHANGED <<inst, lib>> ]_vars

C5_Witness ==
    /\ Running
    /\ last.op = "start"
    /\ last.ret = ESP_OK
    /\ last.calls = <<>>
    /\ \E i \in 1..uris_len : Registered(uris[i].uri, uris[i].method)

\* C6 as stated: a stop issued while Running leaves the instance Stopped and
\* the server torn down when it returns, with the backlog as it was.
C6_StopLeavesStopped ==
    [][ (Running /\ last'.op = "stop")
          => /\ server' = NULL
             /\ ~hd_live'
             /\ Backlog' = Backlog ]_vars

\* C6 amended: a stop issued while Running calls httpd_stop once; when that
\* succeeds the server is torn down and the instance is Stopped, when it fails
\* stop returns the error and the instance stays Running with its server; the
\* backlog is the same before and after in both cases.
C6_StopOutcome ==
    [][ (Running /\ last'.op = "stop")
          => /\ last'.calls = <<"httpd_stop">>
             /\ last'.ret = ESP_OK => (server' = NULL /\ ~hd_live')
             /\ last'.ret # ESP_OK => (server' = server /\ hd_live' /\ UNCHANGED lib)
             /\ (server' = NULL) <=> ~hd_live'
             /\ UNCHANGED <<h, cfg, uris, uris_len, uris_cap>> ]_vars

C6_Witness ==
    /\ Stopped
    /\ IsCompletedStop(last)
    /\ ~hd_live
    /\ uris_len >= 2
    /\ Backlog = accepted

\* C7: once deinit has released the instance, no server started by it is
\* still running, also when httpd_stop failed.
C7_NoServerAfterDeinit ==
    h = "dangling" => ~hd_live

\* C8: a deinit through an absent pointer or through the pointer of an
\* instance already released makes no library call, changes nothing, touches
\* no released storage and stops no server a second time.
C8_DeinitIdempotent ==
    [][ (h # "valid" /\ last'.op = "deinit")
          => /\ last'.calls = <<>>
             /\ UNCHANGED <<inst, lib>>
             /\ ~uaf'
             /\ ~dead_stop' ]_vars

\* C9: an unregister call (with a URI) made while Stopped returns
\* ESP_ERR_INVALID_STATE, makes no library call and changes neither the
\* instance (backlog, lifecycle state) nor the server.
C9_UnregisterWhileStopped ==
    [][ (Stopped /\ last'.op = "unregister" /\ last'.arg.uri # NULL)
          => /\ last'.ret = ESP_ERR_INVALID_STATE
             /\ last'.calls = <<>>
             /\ UNCHANGED <<inst, lib>> ]_vars

C9_Witness ==
    /\ Stopped
    /\ last.op = "unregister"
    /\ last.ret = ESP_ERR_INVALID_STATE
    /\ uris_len >= 1

\* C10: an unregister of a registered URI+method made while Running returns
\* ESP_OK and removes the route from the live server, and within a Running
\* session a route that is absent becomes registered only by a register call
\* for that URI and method.
C10_UnregisterUntilReregistered ==
    [][ /\ (Running /\ last'.op = "unregister"
               /\ Registered(last'.arg.uri, last'.arg.method))
             => /\ last'.ret = ESP_OK
                /\ hd_live'
                /\ server' = server
                /\ httpd_find_uri_handler(hd_calls', last'.arg.uri, last'.arg.method) = 0
        /\ (hd_live /\ hd_live' /\ hd_calls' # hd_calls)
             => \A u \in Uris, m \in Methods :
                  (~Registered(u, m) /\ Registered(u, m)')
                     => /\ last'.op = "register"
                        /\ last'.arg.uri = u
                        /\ last'.arg.method = m ]_vars

C10_Witness ==
    /\ Running
    /\ idf5
    /\ last.op = "unregister"
    /\ last.ret = ESP_OK
    /\ ~Registered(last.arg.uri, last.arg.method)
    /\ \E i \in 1..uris_len : Key(uris[i]) = <<last.arg.uri, last.arg.method>>

\* C11 as stated: unregister leaves the backlog unchanged, so an endpoint
\* that was registered and then unregistered in a Running session is registered
\* again once the server has been stopped and started afterwards.
C11_ReregisteredAfterRestart ==
    (FreshStart /\ last.prev = "stop" /\ last.note = "removed")
        => Registered(last.arg.uri, last.arg.method)

\* C11 amended: an unregister call never changes the backlog (descriptors,
\* length, capacity); after a following stop and start that bring the server up
\* again, the unregistered route is still in the backlog, and it is registered
\* again exactly when it is among the first max_uri_handlers distinct
\* URI+method routes of the backlog.
C11_BacklogKeptAndReplayedWithinCapacity ==
    [][ /\ last'.op = "unregister" => UNCHANGED <<uris, uris_len, uris_cap>>
        /\ (Stopped /\ last'.op = "start" /\ last'.ret = ESP_OK /\ last'.note = "removed")
             => /\ UNCHANGED <<h, cfg, uris, uris_len, uris_cap>>
                /\ \E i \in 1..uris_len : Key(uris[i]) = Key(last'.arg)
                /\ \A i \in 1..uris_len :
                      Key(uris[i]) = Key(last'.arg) =>
                        ((httpd_find_uri_handler(hd_calls', uris[i].uri, uris[i].method) # 0)
                           <=> (Cardinality(KeysUpTo(FirstWithKey(i))) <= MaxUriHandlers))
      ]_vars

C11_Witness ==
    /\ FreshStart
    /\ last.prev = "stop"
    /\ last.note = "removed"
    /\ Registered(last.arg.uri, last.arg.method)
    /\ uris_len >= 2

\* C12: when start finds the instance Stopped and the server comes up, start
\* returns ESP_OK and the instance is Running whether or not replay
\* registrations fail: every backlog descriptor is offered to the server once,
\* in backlog order, also after a failed one; the backlog is left as it was;
\* and every route within the server's capacity ends up registered (nothing
\* is rolled back).
C12_StartSucceedsDespiteReplayFailures ==
    [][ (Stopped /\ last'.op = "start" /\ server' # NULL)
          => /\ last'.ret = ESP_OK
             /\ h' = "valid"
             /\ hd_live'
             /\ reg_log' = Backlog
             /\ Len(last'.calls) = 1 + uris_len
             /\ UNCHANGED <<uris, uris_len, uris_cap>>
             /\ \A i \in 1..uris_len :
                   (Cardinality(KeysUpTo(FirstWithKey(i))) <= MaxUriHandlers)
                     => httpd_find_uri_handler(hd_calls', uris[i].uri, uris[i].method) # 0
      ]_vars

\* a start whose replay had a refused descriptor (a duplicate route) followed
\* by one that was registered
C12_Witness ==
    /\ FreshStart
    /\ Running
    /\ reg_log = Backlog
    /\ \E i \in 2..uris_len - 1 :
          /\ FirstWithKey(i) < i
          /\ uris[FirstWithKey(i)].handler # uris[i].handler
          /\ FirstWithKey(i + 1) = i + 1
          /\ EffectiveHandler(uris[i].uri, uris[i].method) = uris[FirstWithKey(i)].handler
          /\ EffectiveHandler(uris[i + 1].uri, uris[i + 1].method) = uris[i + 1].handler

\* C13: a register call made while Running whose immediate registration the
\* server refuses returns the server's error; the descriptor is appended to
\* the backlog all the same (the earlier descriptors and the server's handlers
\* are untouched), and the start after the next stop offers it to the new
\* server at its backlog position.
C13_RefusedRegisterStaysInBacklog ==
    [][ /\ (Running /\ last'.op = "register" /\ last'.calls # <<>> /\ hd_calls' = hd_calls)
             => /\ last'.ret = httpd_register_uri_handler(hd_calls, last'.arg).err
                /\ last'.ret \in {ESP_ERR_HTTPD_HANDLER_EXISTS, ESP_ERR_HTTPD_HANDLERS_FULL}
                /\ uris_len' = uris_len + 1
                /\ uris_len' <= uris_cap'
                /\ uris'[uris_len'] = last'.arg
                /\ SubSeq(uris', 1, uris_len) = Backlog
                /\ server' = server
        /\ (Stopped /\ last'.op = "start" /\ last'.ret = ESP_OK /\ last'.note = "refused")
             => /\ uris_len >= 1
                /\ uris[uris_len] = last'.arg
                /\ Len(reg_log') = uris_len
                /\ reg_log'[uris_len] = last'.arg
      ]_vars

\* a descriptor refused by the live server, then a stop and a start that
\* registered it on the new server
C13_Witness ==
    /\ FreshStart
    /\ last.prev = "stop"
    /\ last.note = "refused"
    /\ uris_len >= 2
    /\ uris[uris_len] = last.arg
    /\ reg_log[uris_len] = last.arg

RECURSIVE Pow2(_)
Pow2(k) == IF k = 0 THEN 1 ELSE 2 * Pow2(k - 1)

\* the backlog buffer of a live instance is well-formed
BufferWellFormed ==
    h = "valid" =>
        /\ uris_len <= uris_cap
        /\ Len(uris) = uris_cap
        /\ uris_cap = 0 \/ \E k \in 0..MaxAppends : uris_cap = InitialCap * Pow2(k)

\* C20: at all times uris_len <= uris_cap and the capacity is 0 or 4 * 2^k;
\* the capacity grows only inside a register call that finds the buffer full
\* (uris_len = uris_cap), to 4 from 0 and to its double otherwise; and the
\* write of an accepted descriptor lands at index uris_len, inside the
\* capacity, leaving the earlier descriptors in place (all of it for as long
\* as the instance lives).
C20_BufferBounds ==
    [][ /\ BufferWellFormed'
        /\ (h = "valid" /\ h' = "valid" /\ uris_cap' # uris_cap)
             => /\ last'.op = "register"
                /\ uris_len = uris_cap
                /\ uris_cap' = IF uris_cap = 0 THEN InitialCap ELSE 2 * uris_cap
                /\ uris_len' = uris_len + 1
        /\ (h = "valid" /\ h' = "valid" /\ uris_len' # uris_len)
             => /\ last'.op = "register"
                /\ uris_len' = uris_len + 1
                /\ uris_len' <= uris_cap'
                /\ uris'[uris_len + 1] = last'.arg
                /\ SubSeq(uris', 1, uris_len) = Backlog
      ]_vars

\* the buffer has doubled twice: the ninth descriptor sits in a capacity of 16
C20_Witness ==
    /\ h = "valid"
    /\ last.op = "register"
    /\ last.ret = ESP_OK
    /\ uris_len = 2 * InitialCap + 1
    /\ uris_cap = 4 * InitialCap
    /\ uris[uris_len] = last.arg

\* C14: a register call rejected with ESP_ERR_INVALID_ARG or ESP_ERR_NO_MEM
\* is a no-op: the backlog's length, capacity and contents and the rest of the
\* instance are unchanged, the server is not called, and nothing is registered.
C14_RejectedRegisterIsNoop ==
    [][ (last'.op = "register" /\ last'.ret \in {ESP_ERR_INVALID_ARG, ESP_ERR_NO_MEM})
          => /\ last'.calls = <<>>
             /\ UNCHANGED <<inst, lib, accepted>>
      ]_vars

\* a register call that found the buffer full with InitialCap descriptors,
\* while Running, and could not grow it
C14_Witness ==
    /\ Running
    /\ last.op = "register"
    /\ last.ret = ESP_ERR_NO_MEM
    /\ RegisterArgsOk(h, last.arg)
    /\ uris_len = InitialCap
    /\ uris_cap = InitialCap
    /\ \A i \in 1..uris_len : uris[i] \in BufEndpoints

\* C19: a start made while Stopped always attempts the bring-up (it calls
\* httpd_start, also right after a failed start); when httpd_start fails,
\* start returns that error, makes no replay call, leaves the instance Stopped
\* (no handle, native_handle is NULL) and leaves the backlog and the server
\* library untouched.
C19_FailedStartStaysStopped ==
    [][ (Stopped /\ last'.op = "start")
          => /\ last'.calls # <<>>
             /\ Head(last'.calls) = "httpd_start"
             /\ last'.ret # ESP_OK
                  => /\ last'.ret = ESP_ERR_HTTPD_TASK
                     /\ last'.calls = <<"httpd_start">>
                     /\ h' = "valid"
                     /\ server' = NULL
                     /\ http_hal_native_handle' = NULL
                     /\ UNCHANGED <<uris, uris_len, uris_cap, cfg, lib>>
      ]_vars

\* a failed bring-up with a non-empty backlog
C19_Witness ==
    /\ Stopped
    /\ last.op = "start"
    /\ last.ret = ESP_ERR_HTTPD_TASK
    /\ last.calls = <<"httpd_start">>
    /\ http_hal_native_handle = NULL
    /\ uris_len >= 1

\* C15 as stated: every GET /api/led request that carries a malformed level
\* or state value is answered 400 and leaves the pin level, lvl, logical and
\* log_request as they were before the request.
C15_MalformedRejectedBeforeMutation ==
    [][ (req'.op = "led" /\ req'.malformed)
          => /\ resp'.status = Decimal(400)
             /\ UNCHANGED <<gpio, lvl, logical, log_request>>
      ]_vars

\* C16 as stated: send_err hands the call to httpd_resp_send_err, with the
\* matching code, exactly when the status is 400, 401, 404, 413 or 500; for
\* every other status it sends one response with that numeric status, content
\* type application/json and body {"error":"<message>"}.
C16_SendErrMapping ==
    (req.op = "send_err" /\ req.args = "ok")
        => IF req.status \in {400, 401, 404, 413, 500}
           THEN /\ resp.via = "httpd_resp_send_err"
                /\ resp.code = HttpdErrCode(req.status)
           ELSE /\ resp.via = "httpd_resp_send"
                /\ resp.status = Decimal(req.status)
                /\ resp.type = "application/json"
                /\ resp.body = ErrPrefix \o req.msg \o ErrSuffix

\* C16 amended: as stated, except that the fallback body is
\* {"error":"<message>"} cut to its first ErrBufSize - 1 = 95 characters (so a
\* message of more than 83 characters loses its tail and the closing quote and
\* brace).
C16_SendErrMappingTruncated ==
    (req.op = "send_err" /\ req.args = "ok")
        => IF req.status \in {400, 401, 404, 413, 500}
           THEN /\ resp.via = "httpd_resp_send_err"
                /\ resp.code = HttpdErrCode(req.status)
           ELSE LET full == ErrPrefix \o req.msg \o ErrSuffix
                IN /\ resp.via = "httpd_resp_send"
                   /\ resp.status = Decimal(req.status)
                   /\ resp.type = "application/json"
                   /\ resp.body = SubSeq(full, 1, Min(Len(full), ErrBufSize - 1))

\* a fallback response whose message did not fit
C16_Witness ==
    /\ req.op = "send_err"
    /\ req.args = "ok"
    /\ req.status = 422
    /\ Len(req.msg) > ErrBufSize - 1 - Len(ErrPrefix) - Len(ErrSuffix)
    /\ resp.via = "httpd_resp_send"
    /\ Len(resp.body) = ErrBufSize - 1
    /\ resp.body # ErrPrefix \o req.msg \o ErrSuffix

\* C17 as stated: http_hal_send_json returns ESP_OK when the transport accepts
\* the response, and returns the transport's error when httpd_resp_send fails.
C17_SendJsonPropagates ==
    (req.op = "send_json" /\ req.args = "ok") => resp.ret = resp.sent

\* C18 as stated: the gpio_level and led values of a 200 response to GET /api/led
\* are the level that the most recent answered-200 request that wrote the pin
\* left on it.
C18_ReportedEqualsWritten ==
    (req.op = "led" /\ req.status = 200 /\ written # NoLevel)
        => resp.body = LedJson(logical_from_gpio_level(written), written)

====
